---------------------------- MODULE Spec2Model ----------------------------
(* A model of managers/cff_manager.py: the identity predicate              *)
(* CffManager.is_same_person, the classifier get_cff_author_type and the   *)
(* merge loop of CffManager.update_cff.                                    *)
(*                                                                         *)
(* A Python str is a sequence of tokens (a word, or the blank " "); the    *)
(* empty sequence is the empty string and stands for None as well where    *)
(* the code only tests truthiness.  A dict is a function from keys to      *)
(* strings.                                                                *)
EXTENDS Integers, Sequences, FiniteSets, TLC

VARIABLES
    pc,               \* where the program is: "cmp", "cmp_done" (a call of
                      \* is_same_person); "ready", "run", "aborted",
                      \* "invalid", "done" (update_cff)
    cmp,              \* the arguments and the results of the is_same_person call
    run,              \* 1: the first update_cff; 2: a second one on the file it wrote
    original_cff,     \* self.original_cff["authors"]
    cff_file,         \* the authors of the document stored at cff_path
    authors,          \* cff["authors"], the working list of update_cff
    contributors,     \* the argument contributors (a set)
    todo,             \* the contributors the for loop has not visited yet
    already_in_cff_contributors,
    warnings,         \* the list warnings
    entry,            \* the loop's local entry, as the last iteration left it
    contributor,      \* the loop variable
    matched,          \* the local matched of the last iteration
    appended,         \* the contributors whose entry was appended
    missing_authors,  \* the returned set (only meaningful once pc = "done")
    cff_written,      \* this run has written cff_path
    output_written,   \* this run has written output_file
    github,           \* the GitHub API: contributor -> response
    orcid_manager     \* the ORCID manager's answer about "Bob Lee": [id, valid]

vars == <<pc, cmp, run, original_cff, cff_file, authors, contributors, todo,
          already_in_cff_contributors, warnings, entry, contributor, matched,
          appended, missing_authors, cff_written, output_written, github,
          orcid_manager>>

----------------------------------------------------------------------------
(* Bounds *)

\* the longest baseline author list
MaxBaseline == 2

\* the largest set of contributors
MaxContributors == 2

----------------------------------------------------------------------------
(* Strings *)

HTTP_OK == 200

EmptyStr == <<>>

\* one character of str.casefold()
casefold_token(t) ==
    CASE t = "Bob" -> "bob"
      [] t = "Lee" -> "lee"
      [] t = "Acme" -> "acme"
      [] t = "BOB@X" -> "bob@x"
      [] OTHER -> t

\* str.casefold()
casefold(s) == [i \in 1..Len(s) |-> casefold_token(s[i])]

RECURSIVE lstrip(_)
lstrip(s) == IF s # <<>> /\ Head(s) = " " THEN lstrip(Tail(s)) ELSE s

RECURSIVE rstrip(_)
rstrip(s) ==
    IF s # <<>> /\ s[Len(s)] = " " THEN rstrip(SubSeq(s, 1, Len(s) - 1)) ELSE s

\* str.strip()
strip(s) == rstrip(lstrip(s))

\* the index of the first blank of s, 0 when it has none
first_space(s) ==
    IF \E i \in 1..Len(s) : s[i] = " "
    THEN CHOOSE i \in 1..Len(s) : s[i] = " " /\ \A j \in 1..(i - 1) : s[j] # " "
    ELSE 0

\* s.split(" ", 1)
split_once(s) ==
    LET i == first_space(s) IN
    IF i = 0 THEN <<s>>
    ELSE <<SubSeq(s, 1, i - 1), SubSeq(s, i + 1, Len(s))>>

\* f"{x} {y}"
join_space(x, y) == x \o <<" ">> \o y

----------------------------------------------------------------------------
(* Dicts *)

EmptyDict == <<>>

\* d.get(key, "")
get(d, key) == IF key \in DOMAIN d THEN d[key] ELSE EmptyStr

\* d[key] = val
put(d, key, val) ==
    [k \in (DOMAIN d) \cup {key} |-> IF k = key THEN val ELSE d[k]]

\* if val: d[key] = val
put_if(d, key, val) == IF val # EmptyStr THEN put(d, key, val) ELSE d

----------------------------------------------------------------------------
(* CffManager.get_cff_author_type *)

get_cff_author_type(author) ==
    IF "name" \in DOMAIN author THEN "entity"
    ELSE IF "given-names" \in DOMAIN author /\ "family-names" \in DOMAIN author
         THEN "person"
         ELSE "unknown"

(* CffManager.is_same_person *)

\* a variant of field_match with the emptiness test inverted
field_match_inverted(a, b, key) ==
    /\ strip(casefold(get(a, key))) = strip(casefold(get(b, key)))
    /\ strip(get(a, key)) = EmptyStr

\* a.get(key, "").casefold().strip() == b.get(key, "").casefold().strip()
\*   and a.get(key, "").strip() != ""
field_match(a, b, key) ==
    /\ strip(casefold(get(a, key))) = strip(casefold(get(b, key)))
    /\ strip(get(a, key)) # EmptyStr

\* f"{a.get('given-names', '').casefold().strip()} {a.get('family-names', '').casefold().strip()}".strip()
full_name_of(a) ==
    strip(join_space(strip(casefold(get(a, "given-names"))),
                     strip(casefold(get(a, "family-names")))))

\* a variant of entity_match that compares a's alias with b's name
entity_match_crossed(a, b) ==
    \/ field_match(a, b, "name")
    \/ /\ strip(casefold(get(a, "alias"))) = strip(casefold(get(b, "name")))
       /\ strip(get(a, "alias")) # EmptyStr

\* if a_type == "entity": name or alias
entity_match(a, b) ==
    \/ field_match(a, b, "name")
    \/ field_match(a, b, "alias")

\* otherwise: alias, email, orcid or full name
person_match(a, b) ==
    \/ field_match(a, b, "alias")
    \/ field_match(a, b, "email")
    \/ field_match(a, b, "orcid")
    \/ /\ full_name_of(a) = full_name_of(b)
       /\ full_name_of(a) # EmptyStr

\* a variant of type_guard that never raises
type_guard_lax(a_type, b_type) == FALSE

\* if a_type == "unknown" or b_type == "unknown": raise ValueError
type_guard(a_type, b_type) == a_type = "unknown" \/ b_type = "unknown"

\* "True", "False", or "ValueError" when the call raises
is_same_person(a, b) ==
    LET a_type == get_cff_author_type(a)
        b_type == get_cff_author_type(b)
    IN  IF type_guard(a_type, b_type) THEN "ValueError"
        ELSE IF a_type # b_type THEN "False"
        ELSE IF a_type = "entity"
             THEN (IF entity_match(a, b) THEN "True" ELSE "False")
             ELSE (IF person_match(a, b) THEN "True" ELSE "False")


----------------------------------------------------------------------------
(* CffManager.update_cff: one iteration of the for loop                    *)
(*                                                                         *)
(* A contributor is [kind, name, email]: kind "str" is a GitHub login      *)
(* (held in name), kind "tuple" a (name, email) pair of a commit author.   *)
(* The iteration works on st = [authors, already, warnings, raised, entry, *)
(* matched, appended]; raised says that is_same_person raised, which ends  *)
(* update_cff.  A warning is [kind, who, note]: note says whether the text *)
(* ends with contribution_note.                                            *)

GithubUrl == "https://github.com/"

OrcidUrl == "https://orcid.org/"

warning(kind, c, note) == [kind |-> kind, who |-> c, note |-> note]

\* the generator of the any() below: the records are compared in list
\* order, and the first True (or the first raise) ends the scan
RECURSIVE any_from(_, _, _)
any_from(list, e, i) ==
    IF i > Len(list) THEN "False"
    ELSE LET r == is_same_person(list[i], e) IN
         IF r = "False" THEN any_from(list, e, i + 1) ELSE r

\* a variant of any_same that finds nobody
any_same_blind(list, e) == "False"

\* any(self.is_same_person(a, entry) for a in cff["authors"])
any_same(list, e) == any_from(list, e, 1)

\* a variant of append_entry that inserts at the head
append_front(list, e) == <<e>> \o list

\* cff["authors"].append(entry)
append_entry(list, e) == Append(list, e)

\* warnings.append(f"- {identifier}: Already exists in CFF file.")
exists_warning(c) == warning("exists", c, FALSE)

\* the match-and-append step that ends an iteration
match_and_append(st, c, e) ==
    LET r == any_same(st.authors, e) IN
    IF r = "ValueError" THEN [st EXCEPT !.raised = TRUE, !.entry = e]
    ELSE IF r = "True"
    THEN [st EXCEPT !.already = @ \cup {c},
                    !.warnings = Append(@, exists_warning(c)),
                    !.entry = e]
    ELSE [st EXCEPT !.authors = append_entry(@, e),
                    !.entry = e,
                    !.appended = TRUE]

\* the ORCID found for the contributor, validated and stored, or a warning
resolve_orcid(st, c, e, found) ==
    IF found.id # EmptyStr /\ found.valid
    THEN [st EXCEPT !.entry = put(e, "orcid", <<OrcidUrl>> \o found.id)]
    ELSE IF found.id # EmptyStr
    THEN [st EXCEPT !.entry = e,
                    !.warnings = Append(@, warning("orcid_invalid", c, FALSE))]
    ELSE [st EXCEPT !.entry = e,
                    !.warnings = Append(@, warning("no_orcid", c, FALSE))]

\* f"https://github.com/{contributor.casefold().strip()}"
user_profile_url(login) == <<GithubUrl>> \o strip(casefold(login))

\* a variant of fetch_failed that also marks the contributor present
fetch_failed_marks_present(st, c) ==
    [st EXCEPT !.already = @ \cup {c},
               !.warnings = Append(@, warning("fetch_failed", c, TRUE))]

\* resp.status_code != 200: one warning, then continue
fetch_failed(st, c) ==
    [st EXCEPT !.warnings = Append(@, warning("fetch_failed", c, TRUE))]

\* isinstance(contributor, str): a GitHub login
github_user(st, c, resp, found) ==
    IF resp.status_code # HTTP_OK THEN fetch_failed(st, c)
    ELSE
    LET url == user_profile_url(c.name)
        full_name == IF resp.name # EmptyStr THEN resp.name ELSE c.name
        name_parts == split_once(full_name)
    IN  IF resp.type = "Organization"
        THEN match_and_append(st, c,
                 put_if(put(put(EmptyDict, "name", full_name), "alias", url),
                        "email", resp.email))
        ELSE IF Len(name_parts) > 1
        THEN LET e == put_if(put(put(put(EmptyDict, "given-names", name_parts[1]),
                                     "family-names", name_parts[2]),
                                 "alias", url),
                             "email", resp.email)
                 r == resolve_orcid(st, c, e, found)
             IN  match_and_append(r, c, r.entry)
        ELSE match_and_append(
                 [st EXCEPT !.warnings = Append(@, warning("single_name", c, TRUE))],
                 c, put(put(EmptyDict, "name", full_name), "alias", url))

\* the existing record the scan of cff["authors"] stops at: its index, or 0
find_existing(list, name, email) ==
    LET hit(i) ==
            /\ "given-names" \in DOMAIN list[i]
            /\ "family-names" \in DOMAIN list[i]
            /\ "email" \in DOMAIN list[i]
            /\ casefold(strip(join_space(list[i]["given-names"],
                                         list[i]["family-names"])))
                 = casefold(strip(name))
            /\ casefold(strip(list[i]["email"])) = casefold(strip(email))
    IN  IF \E i \in 1..Len(list) : hit(i)
        THEN CHOOSE i \in 1..Len(list) : hit(i) /\ \A j \in 1..(i - 1) : ~hit(j)
        ELSE 0

\* the entry copied from the existing record
carried(existing) ==
    LET e == put(put(put(EmptyDict, "given-names", existing["given-names"]),
                     "family-names", existing["family-names"]),
                 "email", existing["email"])
    IN  IF "orcid" \in DOMAIN existing THEN put(e, "orcid", existing["orcid"]) ELSE e

\* if entry_type == "entity" and not matched: the name is kept whole
unmatched_author(st, c) ==
    IF strip(c.name) = EmptyStr
    THEN [st EXCEPT !.warnings = Append(@, warning("no_name", c, TRUE))]
    ELSE match_and_append(st, c,
             put_if(put(EmptyDict, "name", c.name), "email", c.email))

\* else: the entry carried from the existing record, then overwritten
matched_author(st, c, e0, found) ==
    LET name_parts == split_once(c.name) IN
    IF Len(name_parts) > 1
    THEN LET e == put_if(put(put(e0, "given-names", name_parts[1]),
                             "family-names", name_parts[2]),
                         "email", c.email)
             r == resolve_orcid(st, c, e, found)
         IN  match_and_append(r, c, r.entry)
    ELSE match_and_append(
             [st EXCEPT !.warnings = Append(@, warning("single_name", c, TRUE))],
             c, put_if(put(e0, "name", c.name), "email", c.email))

\* else: a (name, email) pair
commit_author(st, c, found) ==
    LET i == find_existing(st.authors, c.name, c.email) IN
    IF i = 0 THEN unmatched_author(st, c)
    ELSE matched_author([st EXCEPT !.matched = TRUE], c,
                        carried(st.authors[i]), found)

\* the body of "for contributor in contributors"
iteration(st0, c, gh, om) ==
    LET st == [st0 EXCEPT !.entry = EmptyDict, !.matched = FALSE,
                          !.appended = FALSE, !.raised = FALSE]
    IN  IF c.kind = "str" THEN github_user(st, c, gh[c], om)
        ELSE commit_author(st, c, om)

\* a variant of missing_of that keeps the contributors already present
missing_of_swapped(cs, already) == cs \cap already

\* missing_authors: set = contributors - already_in_cff_contributors
missing_of(cs, already) == cs \ already


----------------------------------------------------------------------------
(* The values the model draws its inputs from *)

Rec1(k1, v1) == put(EmptyDict, k1, v1)

Rec2(k1, v1, k2, v2) == put(Rec1(k1, v1), k2, v2)

Rec3(k1, v1, k2, v2, k3, v3) == put(Rec2(k1, v1, k2, v2), k3, v3)

\* the author records a validated CITATION.cff may hold (no empty strings);
\* a person needs no key at all, so one without given-names is among them
BaselineRecords ==
    { Rec3("given-names", <<"Bob">>, "family-names", <<"Lee">>, "email", <<"bob@x">>),
      Rec3("given-names", <<"bob">>, "family-names", <<"lee">>,
           "alias", <<GithubUrl, "bob">>),
      Rec1("name", <<"Bob">>),
      Rec1("family-names", <<"Lee">>) }

Login(l) == [kind |-> "str", name |-> l, email |-> EmptyStr]

Pair(n, e) == [kind |-> "tuple", name |-> n, email |-> e]

ContributorUniverse ==
    { Login(<<"Bob">>),
      Pair(<<"Bob", " ", "Lee">>, <<"bob@x">>),
      Pair(<<"bob", " ", "lee">>, <<"BOB@X">>),
      Pair(<<"bob">>, EmptyStr),
      Pair(EmptyStr, <<"bob@x">>) }

Response(code, type, name, email) ==
    [status_code |-> code, type |-> type, name |-> name, email |-> email]

NoResponse == Response(0, "", EmptyStr, EmptyStr)

\* what GET https://api.github.com/users/{contributor} may answer
Responses ==
    { Response(404, "", EmptyStr, EmptyStr),
      Response(HTTP_OK, "Organization", <<"Acme">>, EmptyStr),
      Response(HTTP_OK, "User", <<"Bob", " ", "Lee">>, <<"bob@x">>),
      Response(HTTP_OK, "User", <<"Bob", " ", "Lee">>, EmptyStr),
      Response(HTTP_OK, "User", EmptyStr, EmptyStr) }

NoOrcid == [id |-> EmptyStr, valid |-> FALSE]

\* what extract_orcid / search_orcid and validate_orcid may answer
OrcidResults ==
    { NoOrcid,
      [id |-> <<"0000-0001">>, valid |-> TRUE],
      [id |-> <<"0000-0001">>, valid |-> FALSE] }

\* the contributors whose iteration may reach the ORCID manager
asks_orcid(c, resp) ==
    IF c.kind = "str"
    THEN resp.status_code = HTTP_OK /\ resp.type = "User"
         /\ Len(split_once(IF resp.name # EmptyStr THEN resp.name ELSE c.name)) > 1
    ELSE Len(split_once(c.name)) > 1 /\ c.email # EmptyStr

RECURSIVE SeqsUpTo(_, _)
SeqsUpTo(S, n) ==
    IF n = 0 THEN {<<>>}
    ELSE LET shorter == SeqsUpTo(S, n - 1) IN
         shorter \cup {Append(q, x) : q \in shorter, x \in S}

\* the records is_same_person is called with: keys present or absent, values
\* empty, blank, or differing in case or in surrounding blanks
CmpValues == {EmptyStr, <<" ">>, <<"Bob">>, <<" ", "bob">>}

CmpRecords ==
    UNION ( { [ks -> CmpValues] :
                ks \in { {}, {"name"}, {"name", "alias"}, {"given-names"},
                         {"given-names", "family-names"} } }
            \cup { [ks -> {EmptyStr, <<"Bob">>, <<" ", "bob">>}] :
                ks \in { {"given-names", "family-names", "email"} } }
            \cup { [ks -> {EmptyStr, <<"Bob">>}] :
                ks \in { {"name", "given-names", "family-names"} } } )

----------------------------------------------------------------------------
(* The state machine *)

Null == [id |-> EmptyStr]

RunIdle ==
    /\ run = 1
    /\ original_cff = <<>>
    /\ cff_file = <<>>
    /\ authors = <<>>
    /\ contributors = {}
    /\ todo = {}
    /\ already_in_cff_contributors = {}
    /\ warnings = <<>>
    /\ entry = EmptyDict
    /\ contributor = Null
    /\ matched = FALSE
    /\ appended = {}
    /\ missing_authors = {}
    /\ cff_written = FALSE
    /\ output_written = FALSE
    /\ github = <<>>
    /\ orcid_manager = NoOrcid

\* a caller about to call is_same_person(a, b)
InitCmp ==
    /\ pc = "cmp"
    /\ cmp \in [a : CmpRecords, b : CmpRecords, ab : {""}, ba : {""}]
    /\ RunIdle

\* CffManager.__init__ has loaded the baseline; update_cff is about to be called
InitRun ==
    /\ pc = "ready"
    /\ cmp = Null
    /\ run = 1
    /\ original_cff \in SeqsUpTo(BaselineRecords, MaxBaseline)
    /\ cff_file = original_cff
    /\ authors = <<>>
    /\ contributors \in {cs \in SUBSET ContributorUniverse :
                            Cardinality(cs) <= MaxContributors}
    /\ todo = {}
    /\ already_in_cff_contributors = {}
    /\ warnings = <<>>
    /\ entry = EmptyDict
    /\ contributor = Null
    /\ matched = FALSE
    /\ appended = {}
    /\ missing_authors = {}
    /\ cff_written = FALSE
    /\ output_written = FALSE
    /\ github \in {g \in [contributors -> Responses \cup {NoResponse}] :
                      \A c \in contributors : (c.kind = "str") <=> (g[c] # NoResponse)}
    /\ orcid_manager \in {o \in OrcidResults :
                      (\A c \in contributors : ~asks_orcid(c, github[c])) => o = NoOrcid}

Init == InitCmp \/ InitRun

\* is_same_person(a, b), and the same call with the arguments exchanged
Compare ==
    /\ pc = "cmp"
    /\ pc' = "cmp_done"
    /\ cmp' = [cmp EXCEPT !.ab = is_same_person(cmp.a, cmp.b),
                          !.ba = is_same_person(cmp.b, cmp.a)]
    /\ UNCHANGED <<run, original_cff, cff_file, authors, contributors, todo,
                   already_in_cff_contributors, warnings, entry, contributor,
                   matched, appended, missing_authors, cff_written,
                   output_written, github, orcid_manager>>

\* update_cff up to the for loop, called with arguments that pass its checks
\* (a set, and a token, repo, pr_number and output_file that are not empty):
\* cff = copy.deepcopy(self.original_cff)
Start ==
    /\ pc = "ready"
    /\ pc' = "run"
    /\ authors' = original_cff
    /\ todo' = contributors
    /\ warnings' = <<>>
    /\ already_in_cff_contributors' = {}
    /\ UNCHANGED <<cmp, run, original_cff, cff_file, contributors, entry,
                   contributor, matched, appended, missing_authors, cff_written,
                   output_written, github, orcid_manager>>

\* one iteration of the for loop, for any contributor not yet visited (a set
\* is iterated in no particular order)
Iterate(c) ==
    /\ pc = "run"
    /\ c \in todo
    /\ LET st == iteration([authors |-> authors,
                            already |-> already_in_cff_contributors,
                            warnings |-> warnings, raised |-> FALSE,
                            entry |-> EmptyDict, matched |-> FALSE,
                            appended |-> FALSE],
                           c, github, orcid_manager)
       IN  /\ pc' = IF st.raised THEN "aborted" ELSE "run"
           /\ authors' = st.authors
           /\ already_in_cff_contributors' = st.already
           /\ warnings' = st.warnings
           /\ entry' = st.entry
           /\ matched' = st.matched
           /\ appended' = IF st.appended THEN appended \cup {c} ELSE appended
    /\ contributor' = c
    /\ todo' = todo \ {c}
    /\ UNCHANGED <<cmp, run, original_cff, cff_file, contributors,
                   missing_authors, cff_written, output_written, github,
                   orcid_manager>>

\* after the loop: cff_path is written and validated (by cffconvert, which
\* may reject it), then output_file is written and missing_authors returned
Finish ==
    /\ pc = "run"
    /\ todo = {}
    /\ cff_file' = authors
    /\ cff_written' = TRUE
    /\ \E valid \in BOOLEAN :
          IF valid
          THEN /\ pc' = "done"
               /\ output_written' = TRUE
               /\ missing_authors' = missing_of(contributors,
                                                already_in_cff_contributors)
          ELSE /\ pc' = "invalid"
               /\ UNCHANGED <<output_written, missing_authors>>
    /\ UNCHANGED <<cmp, run, original_cff, authors, contributors, todo,
                   already_in_cff_contributors, warnings, entry, contributor,
                   matched, appended, github, orcid_manager>>

\* a second run: a new CffManager loads the file the first run wrote, and
\* update_cff is called with the same contributors and the same lookups
Reload ==
    /\ pc = "done"
    /\ run = 1
    /\ run' = 2
    /\ pc' = "ready"
    /\ original_cff' = cff_file
    /\ authors' = <<>>
    /\ todo' = {}
    /\ already_in_cff_contributors' = {}
    /\ warnings' = <<>>
    /\ entry' = EmptyDict
    /\ contributor' = Null
    /\ matched' = FALSE
    /\ appended' = {}
    /\ missing_authors' = {}
    /\ cff_written' = FALSE
    /\ output_written' = FALSE
    /\ UNCHANGED <<cmp, cff_file, contributors, github, orcid_manager>>

Next ==
    \/ Compare
    \/ Start
    \/ \E c \in todo : Iterate(c)
    \/ Finish
    \/ Reload

Spec == Init /\ [][Next]_vars


----------------------------------------------------------------------------
(* What the properties below speak of *)

Range(list) == {list[i] : i \in 1..Len(list)}

Known(author) == get_cff_author_type(author) # "unknown"

\* no two records at distinct positions are the same person
DupFree(list) ==
    \A i, j \in 1..Len(list) : i # j => is_same_person(list[i], list[j]) # "True"

IsPrefix(p, list) == Len(p) <= Len(list) /\ SubSeq(list, 1, Len(p)) = p

\* update_cff has entered its loop
InUpdate == pc \in {"run", "aborted", "invalid", "done"}

\* the profile lookup of a login failed
LookupFailed(c) == c.kind = "str" /\ github[c].status_code # HTTP_OK

\* the iteration of c gets as far as the match-and-append step
BuildsRecord(c) ==
    IF c.kind = "str" THEN github[c].status_code = HTTP_OK
    ELSE strip(c.name) # EmptyStr

RECURSIVE set_to_seq(_)
set_to_seq(S) ==
    IF S = {} THEN <<>>
    ELSE LET x == CHOOSE y \in S : TRUE IN <<x>> \o set_to_seq(S \ {x})

RECURSIVE fold(_, _, _, _)
fold(st, order, gh, om) ==
    IF order = <<>> \/ st.raised THEN st
    ELSE fold(iteration(st, Head(order), gh, om), Tail(order), gh, om)

\* the loop of update_cff with the contributors visited in the given order
update_cff_in_order(baseline, order, gh, om) ==
    fold([authors |-> baseline, already |-> {}, warnings |-> <<>>,
          raised |-> FALSE, entry |-> EmptyDict, matched |-> FALSE,
          appended |-> FALSE], order, gh, om)

----------------------------------------------------------------------------
(* The claims *)

\* C1: when no two records of the baseline are the same person, no two
\* records at distinct positions of cff["authors"] are the same person, at
\* any point of update_cff and at its end.
C1_NoDuplicates == (InUpdate /\ DupFree(original_cff)) => DupFree(authors)

\* two contributors of one run that are the same identity, neither in the
\* baseline: the first was appended, the second found it
C1_Witness ==
    /\ pc = "done" /\ run = 1
    /\ DupFree(original_cff)
    /\ Cardinality(contributors) = 2
    /\ Cardinality(appended) = 1
    /\ contributor \in already_in_cff_contributors
    /\ any_same(original_cff, entry) = "False"

\* C2: the set of records of the final author list is the same for every
\* iteration order of the contributors (stated against one fixed order).
C2_OrderIndependent ==
    (pc = "done" /\ run = 1) =>
        LET st == update_cff_in_order(original_cff, set_to_seq(contributors),
                                      github, orcid_manager)
        IN  ~st.raised /\ Range(st.authors) = Range(authors)

C4_MissingExcludesAppended ==
    pc = "done" =>
        missing_authors =
            {c \in contributors :
                c \notin appended /\ c \notin already_in_cff_contributors}

\* C4 as amended: the returned set holds exactly the contributors not marked
\* already present, so every contributor whose entry was appended is in it.
C4_MissingIsNotAlreadyPresent ==
    pc = "done" =>
        /\ missing_authors = contributors \ already_in_cff_contributors
        /\ appended \subseteq missing_authors

\* one contributor appended, another already present
C4_Witness ==
    /\ pc = "done"
    /\ appended # {}
    /\ already_in_cff_contributors # {}
    /\ appended \subseteq missing_authors

\* C5: for a (name, email) pair that matches no existing person and whose
\* name splits into two parts, the entry built is a Person with the parts
\* as given-names and family-names.
C5_TwoPartNameBuildsPerson ==
    (/\ InUpdate
     /\ contributor # Null
     /\ contributor.kind = "tuple"
     /\ ~matched
     /\ strip(contributor.name) # EmptyStr
     /\ Len(split_once(contributor.name)) > 1)
    => /\ get_cff_author_type(entry) = "person"
       /\ entry["given-names"] = split_once(contributor.name)[1]
       /\ entry["family-names"] = split_once(contributor.name)[2]

\* what the iteration of a login whose lookup fails does
C6_FailedIteration ==
    \A c \in todo :
        (pc = "run" /\ todo' = todo \ {c} /\ LookupFailed(c)) =>
            /\ pc' = "run"
            /\ authors' = authors
            /\ already_in_cff_contributors' = already_in_cff_contributors
            /\ Len(warnings') = Len(warnings) + 1
            /\ SubSeq(warnings', 1, Len(warnings)) = warnings
            /\ warnings'[Len(warnings')].who = c

\* C6: the iteration of a login whose lookup fails appends one warning about
\* it, appends no record, does not mark it present and leaves the loop
\* running; when the run completes the login is in the returned set.
C6_LookupFailureIsNotFatal ==
    /\ [][C6_FailedIteration]_vars
    /\ [](pc = "done" =>
            \A c \in contributors :
                LookupFailed(c) =>
                    c \in missing_authors /\ c \notin already_in_cff_contributors)

\* the lookup of one login failed, and the contributor visited after it was
\* appended
C6_Witness ==
    /\ pc = "done"
    /\ \E c \in contributors : LookupFailed(c) /\ contributor # c
    /\ contributor \in appended

\* C7: is_same_person raises whenever one of its arguments is of unknown
\* type, whatever the other is; a run in which it raises ends before
\* cff_path and output_file are written, and no entry is ever appended past
\* an unknown record.
C7_UnknownIsAnError ==
    /\ (pc = "cmp_done" /\ (~Known(cmp.a) \/ ~Known(cmp.b))) =>
           cmp.ab = "ValueError" /\ cmp.ba = "ValueError"
    /\ (pc = "cmp_done" /\ Known(cmp.a) /\ Known(cmp.b)) =>
           cmp.ab # "ValueError" /\ cmp.ba # "ValueError"
    /\ pc = "aborted" =>
           /\ ~cff_written /\ ~output_written /\ cff_file = original_cff
           /\ \E i \in 1..Len(authors) : ~Known(authors[i])
    /\ InUpdate =>
           \A j \in (Len(original_cff) + 1)..Len(authors) :
               \A i \in 1..j : Known(authors[i])

\* the comparison with an unknown baseline record has ended the run
C7_Witness ==
    /\ pc = "aborted"
    /\ Known(entry)
    /\ \E i \in 1..Len(authors) : ~Known(authors[i])
    /\ todo # {}

\* C8: for records that are both a person or an entity, is_same_person(a, b)
\* equals is_same_person(b, a).
C8_Symmetric ==
    (pc = "cmp_done" /\ Known(cmp.a) /\ Known(cmp.b)) => cmp.ab = cmp.ba

\* two entities, equal up to case and blanks in name, one with a blank alias
C8_Witness ==
    /\ pc = "cmp_done"
    /\ cmp.a = Rec2("name", <<" ", "bob">>, "alias", <<" ">>)
    /\ cmp.b = Rec1("name", <<"Bob">>)
    /\ cmp.ab = "True" /\ cmp.ba = "True"

\* C9: every warning carries the contributor's provenance note.
C9_EveryWarningHasNote ==
    \A i \in 1..Len(warnings) : warnings[i].note

\* what a step of update_cff does to original_cff and to the working list
C10_Step ==
    pc \in {"ready", "run"} =>
        /\ original_cff' = original_cff
        /\ pc = "run" =>
             \/ authors' = authors
             \/ /\ Len(authors') = Len(authors) + 1
                /\ SubSeq(authors', 1, Len(authors)) = authors

\* C10: the working list always has the baseline as a prefix; an iteration
\* leaves the list unchanged or appends one record at its end; update_cff
\* never changes original_cff.
C10_AppendOnly ==
    /\ [](InUpdate => IsPrefix(original_cff, authors))
    /\ [][C10_Step]_vars

\* two records appended after a baseline of two
C10_Witness ==
    /\ pc = "done" /\ run = 1
    /\ Len(original_cff) = 2
    /\ Len(authors) = 4
    /\ Cardinality(appended) = 2

=============================================================================
